---- MODULE Spec2Model ----
(***************************************************************************)
(* Model of the impfe exporter (src/main.go): one scrape cycle of          *)
(* ImpfzentrenCollector.Collect, the catalog classification done by        *)
(* Impfzentren, and the per-pair task CollectAvailability.                 *)
(***************************************************************************)
EXTENDS Integers, Sequences, FiniteSets, Bags, TLC

(***************************************************************************)
(* Bounds of the model.                                                    *)
(***************************************************************************)
MaxAgendas == 2

MaxWindows == 2

ChanCap == 1

(***************************************************************************)
(* Generic helpers.                                                        *)
(***************************************************************************)
BoundedSeq(S, n) == UNION {[1..k -> S] : k \in 0..n}

Range(s) == {s[i] : i \in DOMAIN s}

\* A Go map read: the zero value "" when the key is absent.
Lookup(m, k) == IF k \in DOMAIN m THEN m[k] ELSE ""

\* A Go map write m[k] = v.
Put(m, k, v) == [x \in DOMAIN m \cup {k} |-> IF x = k THEN v ELSE m[x]]

EmptyMap == [x \in {} |-> ""]

(***************************************************************************)
(* The catalog inputs (CIZRespone.Data).                                   *)
(***************************************************************************)
PracticeIDs == {1, 2}

MotiveIDs == {1, 2}

\* Place lists: none, one place, two places with distinct first practice ids,
\* two places sharing their first practice id, and a place without practice
\* ids next to one whose second practice id is another's first.
PlaceLists ==
    { <<>>,
      << [Name |-> "Messe", PractiseIDs |-> <<1>>] >>,
      << [Name |-> "Messe", PractiseIDs |-> <<1>>],
         [Name |-> "Tegel", PractiseIDs |-> <<2>>] >>,
      << [Name |-> "Messe", PractiseIDs |-> <<1>>],
         [Name |-> "Tegel", PractiseIDs |-> <<1, 2>>] >>,
      << [Name |-> "Arena", PractiseIDs |-> <<>>],
         [Name |-> "Tegel", PractiseIDs |-> <<2, 1>>] >> }

\* Visit motive lists: both types named, type 2 unnamed, type 1 named twice.
MotiveLists ==
    { << [ID |-> 1, Name |-> "BioNTech"], [ID |-> 2, Name |-> "Moderna"] >>,
      << [ID |-> 1, Name |-> "BioNTech"] >>,
      << [ID |-> 1, Name |-> "Astra"], [ID |-> 1, Name |-> "BioNTech"] >> }

VisitMotiveLists == {<<>>, <<1>>, <<2, 1>>}

\* An agenda without its id; the id is given by the position in the list.
RawAgendas ==
    [VisitMotives : VisitMotiveLists, PracticeID : PracticeIDs,
     BookingDisabled : BOOLEAN, BookingTemporayDisabled : BOOLEAN]

WithIDs(s) ==
    [i \in DOMAIN s |->
        [ID |-> 10 * i,
         VisitMotives |-> s[i].VisitMotives,
         PracticeID |-> s[i].PracticeID,
         BookingDisabled |-> s[i].BookingDisabled,
         BookingTemporayDisabled |-> s[i].BookingTemporayDisabled]]

AgendaLists(n) == {WithIDs(s) : s \in BoundedSeq(RawAgendas, n)}

Catalogs(n) ==
    [Places : PlaceLists, Agendas : AgendaLists(n), VisitMotives : MotiveLists]

NoCatalog == [Places |-> <<>>, Agendas |-> <<>>, VisitMotives |-> <<>>]

(***************************************************************************)
(* Impfzentren, the classification part (src/main.go:220-248).             *)
(***************************************************************************)
RECURSIVE motiveByID(_)
motiveByID(ms) ==
    IF ms = <<>> THEN EmptyMap
    ELSE LET n == Len(ms)
         IN Put(motiveByID(SubSeq(ms, 1, n - 1)), ms[n].ID, ms[n].Name)
\* Mutant of NewImpfzentrum: the center takes the place's last practice id.
NewImpfzentrumLastID(p) ==
    [ID |-> p.PractiseIDs[Len(p.PractiseIDs)], Name |-> p.Name,
     Vaccination |-> EmptyMap, DisabledVaccination |-> EmptyMap,
     AgendaIDs |-> <<>>]

NewImpfzentrum(p) ==
    [ID |-> p.PractiseIDs[1], Name |-> p.Name,
     Vaccination |-> EmptyMap, DisabledVaccination |-> EmptyMap,
     AgendaIDs |-> <<>>]

RECURSIVE practiceByID(_)
practiceByID(ps) ==
    IF ps = <<>> THEN EmptyMap
    ELSE LET n == Len(ps)
             rest == practiceByID(SubSeq(ps, 1, n - 1))
         IN IF Len(ps[n].PractiseIDs) < 1 THEN rest
            ELSE Put(rest, ps[n].PractiseIDs[1], NewImpfzentrum(ps[n]))

AgendaDisabled(a) == a.BookingDisabled \/ a.BookingTemporayDisabled

\* One write of the inner loop: motiveID goes to one of the two maps.
ClassifyMotive(c, a, names, motiveID) ==
    IF AgendaDisabled(a)
    THEN [c EXCEPT !.DisabledVaccination = Put(@, motiveID, Lookup(names, motiveID))]
    ELSE [c EXCEPT !.Vaccination = Put(@, motiveID, Lookup(names, motiveID))]

RECURSIVE ClassifyMotives(_, _, _, _)
ClassifyMotives(c, a, names, ids) ==
    IF ids = <<>> THEN c
    ELSE LET n == Len(ids)
         IN ClassifyMotive(ClassifyMotives(c, a, names, SubSeq(ids, 1, n - 1)),
                           a, names, ids[n])

\* Mutant of ProcessAgenda: the id of a disabled agenda is not recorded.
ProcessAgendaSkipsDisabledID(st, a, names) ==
    IF st.panic THEN st
    ELSE IF a.PracticeID \notin DOMAIN st.byID THEN [st EXCEPT !.panic = TRUE]
    ELSE LET c  == st.byID[a.PracticeID]
             c1 == IF AgendaDisabled(a) THEN c ELSE [c EXCEPT !.AgendaIDs = Append(@, a.ID)]
         IN [st EXCEPT !.byID = Put(@, a.PracticeID,
                                    ClassifyMotives(c1, a, names, a.VisitMotives))]

\* The body of the agenda loop. st.panic is the nil dereference of
\* practiceByID[a.PracticeID] when no place has that first practice id.
ProcessAgenda(st, a, names) ==
    IF st.panic THEN st
    ELSE IF a.PracticeID \notin DOMAIN st.byID THEN [st EXCEPT !.panic = TRUE]
    ELSE LET c  == st.byID[a.PracticeID]
             c1 == [c EXCEPT !.AgendaIDs = Append(@, a.ID)]
         IN [st EXCEPT !.byID = Put(@, a.PracticeID,
                                    ClassifyMotives(c1, a, names, a.VisitMotives))]

RECURSIVE ProcessAgendas(_, _, _)
ProcessAgendas(st, as, names) ==
    IF as = <<>> THEN st
    ELSE LET n == Len(as)
         IN ProcessAgenda(ProcessAgendas(st, SubSeq(as, 1, n - 1), names), as[n], names)

\* The outcome of the classification: a panic, or the set of centers (the
\* result slice is built by ranging over a map, so its order is arbitrary).
Classify(ciz) ==
    LET st == ProcessAgendas([panic |-> FALSE, byID |-> practiceByID(ciz.Places)],
                             ciz.Agendas, motiveByID(ciz.VisitMotives))
    IN [panic |-> st.panic,
        result |-> IF st.panic THEN {} ELSE {st.byID[k] : k \in DOMAIN st.byID}]

(***************************************************************************)
(* The HTTP layer shared by Impfzentren (src/main.go:202-218) and          *)
(* GetAvailabilities (src/main.go:182-198): a response is a transport      *)
(* error, or a status code with a body that reads and decodes or does not. *)
(***************************************************************************)
StatusCodes == {200, 399, 400, 503}

\* err: the transport failed; readErr: reading the body failed; decodes:
\* json.Unmarshal accepts the body, and body is then the decoded value.
HTTPResults(bodies, none) ==
    [err : {TRUE}, StatusCode : {0}, readErr : {FALSE}, decodes : {FALSE}, body : {none}]
    \cup [err : {FALSE}, StatusCode : {200}, readErr : {TRUE}, decodes : {FALSE},
          body : {none}]
    \cup [err : {FALSE}, StatusCode : StatusCodes, readErr : {FALSE}, decodes : {FALSE},
          body : {none}]
    \cup [err : {FALSE}, StatusCode : StatusCodes, readErr : {FALSE}, decodes : {TRUE},
          body : bodies]
\* Mutant of StatusFailed: status 400 passes.
StatusFailedAbove400(code) == code > 400

\* resp.StatusCode > 399
StatusFailed(code) == code > 399

\* The error returned before the body is used, "" when there is none.
HTTPError(resp) ==
    IF resp.err THEN "request failed"
    ELSE IF StatusFailed(resp.StatusCode) THEN "status"
    ELSE IF resp.readErr THEN "reading body failed"
    ELSE IF ~resp.decodes THEN "failed to parse response"
    ELSE ""

\* Impfzentren as a whole: (centers, err), or a panic.
Impfzentren(resp) ==
    IF HTTPError(resp) # ""
    THEN [err |-> HTTPError(resp), panic |-> FALSE, result |-> {}]
    ELSE LET c == Classify(resp.body)
         IN [err |-> "", panic |-> c.panic, result |-> c.result]

\* GetAvailabilities: (response, err).
NoResponse == [NextSlot |-> "", Availabilities |-> <<>>]

GetAvailabilities(resp) ==
    IF HTTPError(resp) # ""
    THEN [err |-> HTTPError(resp), r |-> NoResponse]
    ELSE [err |-> "", r |-> resp.body]

\* strings.Join(aids, "-") over strconv.Itoa of each agenda id.
RECURSIVE JoinIDs(_)
JoinIDs(ids) ==
    IF ids = <<>> THEN ""
    ELSE IF Len(ids) = 1 THEN ToString(ids[1])
    ELSE ToString(ids[1]) \o "-" \o JoinIDs(Tail(ids))

(***************************************************************************)
(* Next-date resolution of CollectAvailability (src/main.go:138-148).      *)
(***************************************************************************)
RECURSIVE FirstWindowDate(_)
FirstWindowDate(as) ==
    IF as = <<>> THEN ""
    ELSE IF Len(Head(as).Slots) > 0 THEN Head(as).Date
    ELSE FirstWindowDate(Tail(as))
\* Mutant of NextDate: the next_slot hint is preferred to the windows.
NextDateHintFirst(r) ==
    IF r.NextSlot # "" THEN r.NextSlot ELSE FirstWindowDate(r.Availabilities)

NextDate(r) ==
    LET nextDate == FirstWindowDate(r.Availabilities)
    IN IF nextDate = "" THEN r.NextSlot ELSE nextDate

(***************************************************************************)
(* time.Parse("2006-01-02", s) (src/main.go:150): a string is handled as   *)
(* its sequence of characters.                                             *)
(***************************************************************************)
Chars(s) ==
    CASE s = ""           -> <<>>
      [] s = "2024-01-09" -> <<"2", "0", "2", "4", "-", "0", "1", "-", "0", "9">>
      [] s = "2024-01-10" -> <<"2", "0", "2", "4", "-", "0", "1", "-", "1", "0">>
      [] s = "2024-01-12" -> <<"2", "0", "2", "4", "-", "0", "1", "-", "1", "2">>
      [] s = "2024-02-01" -> <<"2", "0", "2", "4", "-", "0", "2", "-", "0", "1">>
      [] s = "2024-02-30" -> <<"2", "0", "2", "4", "-", "0", "2", "-", "3", "0">>
      [] s = "2024-1-12"  -> <<"2", "0", "2", "4", "-", "1", "-", "1", "2">>
      [] s = "12.01.2024" -> <<"1", "2", ".", "0", "1", ".", "2", "0", "2", "4">>
      [] s = "9999-12-31" -> <<"9", "9", "9", "9", "-", "1", "2", "-", "3", "1">>

Digits == <<"0", "1", "2", "3", "4", "5", "6", "7", "8", "9">>

IsDigit(c) == \E i \in DOMAIN Digits : Digits[i] = c

DigitVal(c) == (CHOOSE i \in DOMAIN Digits : Digits[i] = c) - 1

RECURSIVE Atoi(_)
Atoi(cs) ==
    IF cs = <<>> THEN 0
    ELSE 10 * Atoi(SubSeq(cs, 1, Len(cs) - 1)) + DigitVal(cs[Len(cs)])

IsLeap(y) == y % 4 = 0 /\ (y % 100 # 0 \/ y % 400 = 0)

DaysIn(m, y) ==
    IF m = 2 THEN (IF IsLeap(y) THEN 29 ELSE 28)
    ELSE IF m \in {4, 6, 9, 11} THEN 30 ELSE 31

\* Days from 1970-01-01 to the given civil date.
DaysFromCivil(y, m, d) ==
    LET yy  == IF m <= 2 THEN y - 1 ELSE y
        era == yy \div 400
        yoe == yy - era * 400
        mp  == (m + 9) % 12
        doy == (153 * mp + 2) \div 5 + d - 1
        doe == yoe * 365 + yoe \div 4 - yoe \div 100 + doy
    IN era * 146097 + doe - 719468

\* (ok, day): day is the day number of the parsed date at 00:00 UTC.
TimeParse(s) ==
    LET cs == Chars(s)
        wellFormed ==
            /\ Len(cs) = 10
            /\ \A i \in {1, 2, 3, 4, 6, 7, 9, 10} : IsDigit(cs[i])
            /\ cs[5] = "-" /\ cs[8] = "-"
        y == Atoi(SubSeq(cs, 1, 4))
        m == Atoi(SubSeq(cs, 6, 7))
        d == Atoi(SubSeq(cs, 9, 10))
    IN IF ~wellFormed THEN [ok |-> FALSE, day |-> 0]
       ELSE IF m < 1 \/ m > 12 THEN [ok |-> FALSE, day |-> 0]
       ELSE IF d < 1 \/ d > DaysIn(m, y) THEN [ok |-> FALSE, day |-> 0]
       ELSE [ok |-> TRUE, day |-> DaysFromCivil(y, m, d)]

\* A time.Duration, an int64 of nanoseconds, kept as hours, seconds and
\* nanoseconds of the same sign.
Duration(h) == [hours |-> h, seconds |-> 0, nanoseconds |-> 0]

\* math.MaxInt64 and math.MinInt64 nanoseconds.
MaxDuration == [hours |-> 2562047, seconds |-> 2836, nanoseconds |-> 854775807]

MinDuration == [hours |-> -2562047, seconds |-> -2836, nanoseconds |-> -854775808]

\* time.Until(nextSlot), whose Hours() the sample takes, with the clock
\* counted in whole hours since 1970-01-01T00:00 UTC: Time.Sub returns the
\* largest or smallest Duration when the difference does not fit.
HoursUntil(day, clock) ==
    LET d == day * 24 - clock
    IN IF d > MaxDuration.hours THEN MaxDuration
       ELSE IF d < MinDuration.hours THEN MinDuration
       ELSE Duration(d)

(***************************************************************************)
(* time.Now().Format("2006-01-02") (src/main.go:171). The image of the     *)
(* Dockerfile has no zone database and sets no TZ, so Local is UTC.        *)
(***************************************************************************)
\* The civil date <<year, month, day>> of a day number.
CivilFromDays(z) ==
    LET zz  == z + 719468
        era == zz \div 146097
        doe == zz - era * 146097
        yoe == (doe - doe \div 1460 + doe \div 36524 - doe \div 146096) \div 365
        doy == doe - (365 * yoe + yoe \div 4 - yoe \div 100)
        mp  == (5 * doy + 2) \div 153
        d   == doy - (153 * mp + 2) \div 5 + 1
        m   == IF mp < 10 THEN mp + 3 ELSE mp - 9
        y   == yoe + era * 400
    IN <<IF m <= 2 THEN y + 1 ELSE y, m, d>>

\* A number in at least w digits, zero-padded.
RECURSIVE Pad(_, _)
Pad(n, w) == IF w <= 1 \/ n >= 10 ^ (w - 1) THEN ToString(n) ELSE "0" \o Pad(n, w - 1)

TimeFormat(clock) ==
    LET c == CivilFromDays(clock \div 24)
    IN Pad(c[1], 4) \o "-" \o Pad(c[2], 2) \o "-" \o Pad(c[3], 2)

\* The query GetAvailabilities sends (src/main.go:170-177); clock is the
\* time.Now() of line 171.
AvailabilityQuery(practice, motive, aganda_ids, clock) ==
    [start_date |-> TimeFormat(clock),
     visit_motive_ids |-> ToString(motive),
     agenda_ids |-> JoinIDs(aganda_ids),
     insurance_sector |-> "public",
     practice_ids |-> ToString(practice),
     destroy_temporary |-> "true",
     limit |-> "4"]

NoQuery ==
    [start_date |-> "", visit_motive_ids |-> "", agenda_ids |-> "", insurance_sector |-> "",
     practice_ids |-> "", destroy_temporary |-> "", limit |-> ""]

(***************************************************************************)
(* The availability inputs (AvailbilitiesResponse).                        *)
(***************************************************************************)
SlotLists == {<<>>, << [AgendaID |-> 10] >>}

WindowDates == {"", "2024-01-10", "2024-01-12"}

HintDates == {"", "2024-02-01", "12.01.2024"}

Windows == [Date : WindowDates, Slots : SlotLists]

Responses == [NextSlot : HintDates, Availabilities : BoundedSeq(Windows, MaxWindows)]

\* The responses a task of the scrape cycle may receive.
CycleResponses ==
    { [NextSlot |-> "", Availabilities |-> <<>>],
      [NextSlot |-> "2024-01-09",
       Availabilities |-> << [Date |-> "2024-01-10", Slots |-> <<>>] >>],
      [NextSlot |-> "2024-02-01",
       Availabilities |-> << [Date |-> "2024-01-10", Slots |-> <<>>],
                             [Date |-> "2024-01-12", Slots |-> << [AgendaID |-> 10] >>] >>],
      [NextSlot |-> "12.01.2024", Availabilities |-> <<>>],
      [NextSlot |-> "9999-12-31", Availabilities |-> <<>>],
      [NextSlot |-> "",
       Availabilities |-> << [Date |-> "2024-02-30", Slots |-> << [AgendaID |-> 10] >>] >>] }

(***************************************************************************)
(* The metric samples sent on the channel of Collect.                      *)
(***************************************************************************)
BoolLabel(b) == IF b THEN "true" ELSE "false"
\* Mutant of PresenceSample: the disabled label is always "false".
PresenceSampleNeverDisabled(name, type, disabled) ==
    [desc |-> "impfzentrum", labels |-> <<name, type, "false">>, value |-> <<1, 1>>]

\* prometheus.MustNewConstMetric(cl.impfzentrumMetric, GaugeValue, 1, ...)
PresenceSample(name, type, disabled) ==
    [desc |-> "impfzentrum", labels |-> <<name, type, BoolLabel(disabled)>>,
     value |-> <<1, 1>>]

\* prometheus.MustNewConstMetric(desc, GaugeValue, hours/24, ...): the value
\* is kept as the fraction <<hours, 24>>, hours being the Duration.
NextSlotSample(name, type, hours) ==
    [desc |-> "impfzentrum_next_slot_duration_days", labels |-> <<name, type>>,
     value |-> <<hours, 24>>]

NoSample == [desc |-> "", labels |-> <<>>, value |-> <<0, 1>>]

(***************************************************************************)
(* State.                                                                  *)
(***************************************************************************)
VARIABLES
    pc,          \* position of Collect: start, range, send, wait, done, panic
    catalogResp, \* the HTTP response Impfzentren got for the catalog
    err,         \* the error Impfzentren returned to Collect, "" if none
    ciz,         \* the decoded catalog of this cycle
    centers,     \* the centers Impfzentren returned
    todoCenters, \* centers the outer loop of Collect has not reached yet
    center,      \* the center of the current iteration
    todoVacc,    \* keys of center.Vaccination not yet ranged over
    todoDis,     \* keys of center.DisabledVaccination not yet ranged over
    motive,      \* the motiveID whose presence sample Collect is sending
    tasks,       \* the CollectAvailability goroutines, by <<center.ID, motiveID>>
    wg,          \* the counter of the sync.WaitGroup
    ch,          \* the channel ch of Collect: samples sent and not yet received
    sink,        \* the samples the registry received from ch, as a bag
    now,         \* the clock, in hours since 1970-01-01T00:00 UTC
    avail,       \* the availability response given to the date resolution
    nextDate,    \* the resolved nextDate
    other        \* a second, concurrent call of Collect: its variables while
                 \* the goroutines of the first call are the ones stepping

vars == <<pc, catalogResp, err, ciz, centers, todoCenters, center, todoVacc, todoDis, motive,
          tasks, wg, ch, sink, now, avail, nextDate, other>>

NoCenter ==
    [ID |-> 0, Name |-> "", Vaccination |-> EmptyMap,
     DisabledVaccination |-> EmptyMap, AgendaIDs |-> <<>>]

NowStart == DaysFromCivil(2024, 1, 10) * 24

\* 2024-01-10T00:00 and 2024-01-11T12:00.
Nows == {NowStart, NowStart + 36}

\* The catalogs a scrape cycle may receive.
CyclePlaceLists ==
    { << [Name |-> "Messe", PractiseIDs |-> <<1>>] >>,
      << [Name |-> "Messe", PractiseIDs |-> <<1>>],
         [Name |-> "Tegel", PractiseIDs |-> <<2>>] >> }

Agenda(id, practice, motives, disabled, temporary) ==
    [ID |-> id, VisitMotives |-> motives, PracticeID |-> practice,
     BookingDisabled |-> disabled, BookingTemporayDisabled |-> temporary]

\* No agenda; two types of one center; one type at two centers; a type
\* enabled by one agenda and disabled by a later one, next to an enabled
\* type; a type disabled and then enabled; a disabled type only; three
\* agendas over two centers; an agenda without a type.
CycleAgendaLists ==
    { <<>>,
      << Agenda(10, 1, <<>>, FALSE, FALSE), Agenda(20, 1, <<1>>, FALSE, FALSE) >>,
      << Agenda(10, 1, <<1>>, FALSE, FALSE), Agenda(20, 1, <<2>>, FALSE, FALSE) >>,
      << Agenda(10, 1, <<1>>, FALSE, FALSE), Agenda(20, 2, <<1>>, FALSE, FALSE) >>,
      << Agenda(10, 1, <<1, 2>>, FALSE, FALSE), Agenda(20, 1, <<2>>, TRUE, FALSE) >>,
      << Agenda(10, 1, <<1>>, FALSE, TRUE), Agenda(20, 1, <<1>>, FALSE, FALSE) >>,
      << Agenda(10, 1, <<1>>, FALSE, TRUE) >>,
      << Agenda(10, 1, <<1>>, FALSE, FALSE), Agenda(20, 2, <<2>>, TRUE, FALSE),
         Agenda(30, 2, <<1>>, FALSE, FALSE) >> }

CycleCatalogs ==
    [Places : CyclePlaceLists,
     Agendas : CycleAgendaLists,
     VisitMotives : {<< [ID |-> 1, Name |-> "BioNTech"] >>}]

NoHTTP ==
    [err |-> FALSE, StatusCode |-> 0, readErr |-> FALSE, decodes |-> FALSE,
     body |-> NoCatalog]

\* The variables of one call of Collect, as they are before it runs.
NewCycle ==
    [pc |-> "start", catalogResp |-> NoHTTP, err |-> "", ciz |-> NoCatalog, centers |-> {},
     todoCenters |-> {}, center |-> NoCenter, todoVacc |-> {}, todoDis |-> {}, motive |-> 0,
     tasks |-> EmptyMap, wg |-> 0, ch |-> <<>>, sink |-> EmptyBag]

\* Everything but pc, ciz and avail, as it is before Collect runs.
Idle ==
    /\ other = NewCycle
    /\ catalogResp = NoHTTP
    /\ err = ""
    /\ centers = {}
    /\ todoCenters = {}
    /\ center = NoCenter
    /\ todoVacc = {}
    /\ todoDis = {}
    /\ motive = 0
    /\ tasks = EmptyMap
    /\ wg = 0
    /\ ch = <<>>
    /\ sink = EmptyBag
    /\ now = NowStart
    /\ nextDate = ""

Init ==
    /\ pc = "start"
    /\ Idle
    /\ ciz = NoCatalog
    /\ avail = NoResponse

\* The answers Impfzentren may get to its catalog request: every failure,
\* every catalog with status 200 and, for the status just below the
\* failing ones, the catalogs of the one disabled agenda.
CatalogHTTPResults ==
    {r \in HTTPResults(CycleCatalogs, NoCatalog) :
        r.StatusCode = 399 /\ r.decodes =>
            r.body.Agendas = << Agenda(10, 1, <<1>>, FALSE, TRUE) >>}

(***************************************************************************)
(* ImpfzentrenCollector.Collect (src/main.go:98-121).                      *)
(***************************************************************************)
\* centers, err := Impfzentren(); if err != nil { return }
CollectFetchFailed ==
    /\ pc = "start"
    /\ \E resp \in CatalogHTTPResults :
         LET iz == Impfzentren(resp)
         IN /\ iz.err # ""
            /\ catalogResp' = resp
            /\ err' = iz.err
    /\ pc' = "done"
    /\ UNCHANGED <<ciz, centers, todoCenters, center, todoVacc, todoDis, motive,
                   tasks, wg, ch, sink, now, avail, nextDate, other>>

\* Impfzentren dereferences a nil *Impfzentrum: the process dies.
CollectPanic ==
    /\ pc = "start"
    /\ \E resp \in CatalogHTTPResults :
         LET iz == Impfzentren(resp)
         IN /\ iz.err = "" /\ iz.panic
            /\ catalogResp' = resp
            /\ ciz' = resp.body
    /\ pc' = "panic"
    /\ UNCHANGED <<err, centers, todoCenters, center, todoVacc, todoDis, motive,
                   tasks, wg, ch, sink, now, avail, nextDate, other>>

\* centers, err := Impfzentren() with err == nil.
CollectCenters ==
    /\ pc = "start"
    /\ \E resp \in CatalogHTTPResults :
         LET iz == Impfzentren(resp)
         IN /\ iz.err = "" /\ ~iz.panic
            /\ catalogResp' = resp
            /\ ciz' = resp.body
            /\ centers' = iz.result
            /\ todoCenters' = iz.result
    /\ pc' = "range"
    /\ UNCHANGED <<err, center, todoVacc, todoDis, motive,
                   tasks, wg, ch, sink, now, avail, nextDate, other>>

\* for _, center := range centers
NextCenter ==
    /\ pc = "range" /\ todoVacc = {} /\ todoDis = {}
    /\ \E c \in todoCenters :
         /\ center' = c
         /\ todoCenters' = todoCenters \ {c}
         /\ todoVacc' = DOMAIN c.Vaccination
         /\ todoDis' = DOMAIN c.DisabledVaccination
    /\ UNCHANGED <<pc, catalogResp, err, ciz, centers, motive, tasks, wg, ch, sink, now,
                   avail, nextDate, other>>

\* The responses a task may get to its availability request: a transport
\* error, status 400 with a body that would give a date, and status 200
\* with a body that does not decode or with any of CycleResponses.
TaskHTTPResults ==
    {r \in HTTPResults(CycleResponses, NoResponse) :
        \/ r.err
        \/ r.StatusCode = 400 /\ r.decodes /\ r.body.NextSlot = "2024-02-01"
        \/ r.StatusCode = 200 /\ ~r.readErr}

NoTaskResp ==
    [err |-> FALSE, StatusCode |-> 0, readErr |-> FALSE, decodes |-> FALSE,
     body |-> NoResponse]

\* A goroutine with its arguments, before it has run: req is the request
\* it sends and calls counts the requests it has sent; resp is the answer
\* it got and at the clock it read for time.Until.
NewTask(c, motiveID, motiveName) ==
    [st |-> "start", center |-> c, motiveID |-> motiveID, motiveName |-> motiveName,
     req |-> NoQuery, calls |-> 0,
     resp |-> NoTaskResp, at |-> 0,
     outcome |-> "", sample |-> NoSample]

\* wg.Add(1); go CollectAvailability(&wg, ch, cl.nextSlotMetric, center, motiveID, motiveName)
SpawnTask ==
    /\ pc = "range"
    /\ \E motiveID \in todoVacc :
         /\ wg' = wg + 1
         /\ tasks' = Put(tasks, <<center.ID, motiveID>>,
                         NewTask(center, motiveID, center.Vaccination[motiveID]))
         /\ motive' = motiveID
         /\ todoVacc' = todoVacc \ {motiveID}
    /\ pc' = "send"
    /\ UNCHANGED <<catalogResp, err, ciz, centers, todoCenters, center, todoDis, ch, sink, now,
                   avail, nextDate, other>>

\* ch <- presence sample of the enabled pair; blocks while the channel is full.
SendPresence ==
    /\ pc = "send"
    /\ Len(ch) < ChanCap
    /\ ch' = Append(ch, PresenceSample(center.Name, center.Vaccination[motive], FALSE))
    /\ motive' = 0
    /\ pc' = "range"
    /\ UNCHANGED <<catalogResp, err, ciz, centers, todoCenters, center, todoVacc, todoDis,
                   tasks, wg, sink, now, avail, nextDate, other>>

\* for _, v := range center.DisabledVaccination { ch <- presence sample }
SendDisabled ==
    /\ pc = "range" /\ todoVacc = {}
    /\ Len(ch) < ChanCap
    /\ \E id \in todoDis :
         /\ ch' = Append(ch, PresenceSample(center.Name, center.DisabledVaccination[id], TRUE))
         /\ todoDis' = todoDis \ {id}
    /\ UNCHANGED <<pc, catalogResp, err, ciz, centers, todoCenters, center, todoVacc, motive,
                   tasks, wg, sink, now, avail, nextDate, other>>

\* The loops are over: Collect reaches wg.Wait().
LoopEnd ==
    /\ pc = "range" /\ todoVacc = {} /\ todoDis = {} /\ todoCenters = {}
    /\ pc' = "wait"
    /\ UNCHANGED <<catalogResp, err, ciz, centers, todoCenters, center, todoVacc, todoDis,
                   motive, tasks, wg, ch, sink, now, avail, nextDate, other>>
\* Mutant of WgWait: Collect returns without waiting for the counter.
WgWaitNoBarrier ==
    /\ pc = "wait"
    /\ pc' = "done"
    /\ UNCHANGED <<catalogResp, err, ciz, centers, todoCenters, center, todoVacc, todoDis,
                   motive, tasks, wg, ch, sink, now, avail, nextDate, other>>

\* wg.Wait() returns when the counter is zero, and Collect returns.
WgWait ==
    /\ pc = "wait"
    /\ wg = 0
    /\ pc' = "done"
    /\ UNCHANGED <<catalogResp, err, ciz, centers, todoCenters, center, todoVacc, todoDis,
                   motive, tasks, wg, ch, sink, now, avail, nextDate, other>>

(***************************************************************************)
(* CollectAvailability (src/main.go:130-158), one goroutine per task.      *)
(***************************************************************************)
\* Mutant of AvailabilityOutcome: the error of time.Parse is ignored.
AvailabilityOutcomeIgnoresParseError(t, resp, clock) ==
    LET ga   == GetAvailabilities(resp)
        date == NextDate(ga.r)
        slot == TimeParse(date)
    IN IF ga.err # "" THEN [outcome |-> "fetch failed", sample |-> NoSample]
       ELSE IF date = "" THEN [outcome |-> "no date", sample |-> NoSample]
       ELSE [outcome |-> "slot",
             sample |-> NextSlotSample(t.center.Name, t.motiveName,
                                       HoursUntil(slot.day, clock))]

\* What the goroutine does with the answer of its HTTP call, up to the
\* channel send: the outcome and, when a date was parsed, the sample.
AvailabilityOutcome(t, resp, clock) ==
    LET ga   == GetAvailabilities(resp)
        date == NextDate(ga.r)
        slot == TimeParse(date)
    IN IF ga.err # "" THEN [outcome |-> "fetch failed", sample |-> NoSample]
       ELSE IF date = "" THEN [outcome |-> "no date", sample |-> NoSample]
       ELSE IF ~slot.ok THEN [outcome |-> "parse failed", sample |-> NoSample]
       ELSE [outcome |-> "slot",
             sample |-> NextSlotSample(t.center.Name, t.motiveName,
                                       HoursUntil(slot.day, clock))]

\* defer wg.Done()
WgDone(n) == n - 1

\* The goroutine runs: GetAvailabilities reads the clock for start_date
\* and sends its request (src/main.go:132, 166-182).
TaskRequest ==
    \E k \in DOMAIN tasks :
      /\ tasks[k].st = "start"
      /\ tasks' = [tasks EXCEPT
                     ![k].st = "call",
                     ![k].req = AvailabilityQuery(tasks[k].center.ID, tasks[k].motiveID,
                                                  tasks[k].center.AgendaIDs, now),
                     ![k].calls = @ + 1]
      /\ UNCHANGED <<pc, catalogResp, err, ciz, centers, todoCenters, center, todoVacc, todoDis,
                     motive, wg, ch, sink, now, avail, nextDate, other>>
\* Mutant of TaskReturn: a failed fetch returns without wg.Done().
TaskReturnNoDone(k, outcome) ==
    /\ tasks[k].st = "call"
    /\ \E resp \in TaskHTTPResults :
         /\ AvailabilityOutcome(tasks[k], resp, now).outcome = outcome
         /\ tasks' = [tasks EXCEPT ![k].st = "done", ![k].outcome = outcome,
                                   ![k].resp = resp]
    /\ wg' = IF outcome = "fetch failed" THEN wg ELSE WgDone(wg)
    /\ UNCHANGED <<pc, catalogResp, err, ciz, centers, todoCenters, center, todoVacc,
                   todoDis, motive, ch, sink, now, avail, nextDate, other>>

\* Mutant of TaskReturn: a parse failure ends the process (log.Fatalf).
TaskReturnParseAborts(k, outcome) ==
    /\ tasks[k].st = "call"
    /\ \E resp \in TaskHTTPResults :
         /\ AvailabilityOutcome(tasks[k], resp, now).outcome = outcome
         /\ tasks' = [tasks EXCEPT ![k].st = "done", ![k].outcome = outcome,
                                   ![k].resp = resp]
    /\ wg' = WgDone(wg)
    /\ pc' = IF outcome = "parse failed" THEN "panic" ELSE pc
    /\ UNCHANGED <<catalogResp, err, ciz, centers, todoCenters, center, todoVacc, todoDis,
                   motive, ch, sink, now, avail, nextDate, other>>

\* Mutant of TaskReturn: a failed fetch is tried once more.
TaskReturnRetry(k, outcome) ==
    /\ tasks[k].st = "call"
    /\ \E resp \in TaskHTTPResults :
         /\ AvailabilityOutcome(tasks[k], resp, now).outcome = outcome
         /\ tasks' = IF outcome = "fetch failed" /\ tasks[k].calls < 2
                      THEN [tasks EXCEPT ![k].calls = @ + 1]
                      ELSE [tasks EXCEPT ![k].st = "done", ![k].outcome = outcome,
                                         ![k].resp = resp]
         /\ wg' = IF outcome = "fetch failed" /\ tasks[k].calls < 2 THEN wg ELSE WgDone(wg)
    /\ UNCHANGED <<pc, catalogResp, err, ciz, centers, todoCenters, center, todoVacc, todoDis,
                   motive, ch, sink, now, avail, nextDate, other>>

\* The HTTP call returns and the goroutine returns without a sample.
TaskReturn(k, outcome) ==
    /\ tasks[k].st = "call"
    /\ \E resp \in TaskHTTPResults :
         /\ AvailabilityOutcome(tasks[k], resp, now).outcome = outcome
         /\ tasks' = [tasks EXCEPT ![k].st = "done", ![k].outcome = outcome,
                                   ![k].resp = resp]
    /\ wg' = WgDone(wg)
    /\ UNCHANGED <<pc, catalogResp, err, ciz, centers, todoCenters, center, todoVacc, todoDis,
                   motive, ch, sink, now, avail, nextDate, other>>

\* GetAvailabilities returned an error.
TaskFetchFailed == \E k \in DOMAIN tasks : TaskReturn(k, "fetch failed")

\* nextDate is empty.
TaskNoDate == \E k \in DOMAIN tasks : TaskReturn(k, "no date")

\* time.Parse failed.
TaskParseFailed == \E k \in DOMAIN tasks : TaskReturn(k, "parse failed")

\* Mutant of TaskResolved: wg.Done() is called before the channel send
\* instead of being deferred.
TaskResolvedDoneBeforeSend ==
    \E k \in DOMAIN tasks :
      /\ tasks[k].st = "call"
      /\ \E resp \in TaskHTTPResults :
           LET o == AvailabilityOutcome(tasks[k], resp, now)
           IN /\ o.outcome = "slot"
              /\ tasks' = [tasks EXCEPT ![k].st = "send", ![k].outcome = "slot",
                                        ![k].resp = resp, ![k].at = now,
                                        ![k].sample = o.sample]
      /\ wg' = WgDone(wg)
      /\ UNCHANGED <<pc, catalogResp, err, ciz, centers, todoCenters, center, todoVacc, todoDis,
                     motive, ch, sink, now, avail, nextDate, other>>

\* Mutant of TaskResolved: the goroutine reads the loop variables of Collect
\* instead of its own arguments.
TaskResolvedSharedLoopVars ==
    \E k \in DOMAIN tasks :
      /\ tasks[k].st = "call"
      /\ \E resp \in TaskHTTPResults :
           LET t == [tasks[k] EXCEPT !.center = center,
                                     !.motiveName = Lookup(center.Vaccination, k[2])]
               o == AvailabilityOutcome(t, resp, now)
           IN /\ o.outcome = "slot"
              /\ tasks' = [tasks EXCEPT ![k].st = "send", ![k].outcome = "slot",
                                        ![k].resp = resp, ![k].at = now,
                                        ![k].sample = o.sample]
      /\ UNCHANGED <<pc, catalogResp, err, ciz, centers, todoCenters, center, todoVacc, todoDis,
                     motive, wg, ch, sink, now, avail, nextDate, other>>

\* The HTTP call returns and the goroutine reaches the channel send.
TaskResolved ==
    \E k \in DOMAIN tasks :
      /\ tasks[k].st = "call"
      /\ \E resp \in TaskHTTPResults :
           LET o == AvailabilityOutcome(tasks[k], resp, now)
           IN /\ o.outcome = "slot"
              /\ tasks' = [tasks EXCEPT ![k].st = "send", ![k].outcome = "slot",
                                        ![k].resp = resp, ![k].at = now,
                                        ![k].sample = o.sample]
      /\ UNCHANGED <<pc, catalogResp, err, ciz, centers, todoCenters, center, todoVacc, todoDis,
                     motive, wg, ch, sink, now, avail, nextDate, other>>

\* Mutant of SendNextSlot: the send also waits until Collect has left its
\* loops, as if Collect held a lock over them.
SendNextSlotAfterLoops ==
    \E k \in DOMAIN tasks :
      /\ tasks[k].st = "send"
      /\ pc = "wait"
      /\ Len(ch) < ChanCap
      /\ ch' = Append(ch, tasks[k].sample)
      /\ tasks' = [tasks EXCEPT ![k].st = "done"]
      /\ wg' = WgDone(wg)
      /\ UNCHANGED <<pc, catalogResp, err, ciz, centers, todoCenters, center, todoVacc, todoDis,
                     motive, sink, now, avail, nextDate, other>>

\* ch <- next-slot sample; blocks while the channel is full. Then the
\* goroutine returns.
SendNextSlot ==
    \E k \in DOMAIN tasks :
      /\ tasks[k].st = "send"
      /\ Len(ch) < ChanCap
      /\ ch' = Append(ch, tasks[k].sample)
      /\ tasks' = [tasks EXCEPT ![k].st = "done"]
      /\ wg' = WgDone(wg)
      /\ UNCHANGED <<pc, catalogResp, err, ciz, centers, todoCenters, center, todoVacc, todoDis,
                     motive, sink, now, avail, nextDate, other>>

(***************************************************************************)
(* The environment: the registry receiving from ch, and the clock.         *)
(***************************************************************************)
SinkReceive ==
    /\ ch # <<>>
    /\ sink' = sink (+) SetToBag({Head(ch)})
    /\ ch' = Tail(ch)
    /\ UNCHANGED <<pc, catalogResp, err, ciz, centers, todoCenters, center, todoVacc, todoDis,
                   motive, tasks, wg, now, avail, nextDate, other>>

Tick ==
    /\ pc \notin {"done", "panic"}
    /\ \E t \in Nows : t > now /\ now' = t
    /\ UNCHANGED <<pc, catalogResp, err, ciz, centers, todoCenters, center, todoVacc, todoDis,
                   motive, tasks, wg, ch, sink, avail, nextDate, other>>

Next ==
    \/ CollectFetchFailed
    \/ CollectPanic
    \/ CollectCenters
    \/ NextCenter
    \/ SpawnTask
    \/ SendPresence
    \/ SendDisabled
    \/ LoopEnd
    \/ WgWait
    \/ TaskRequest
    \/ TaskFetchFailed
    \/ TaskNoDate
    \/ TaskParseFailed
    \/ TaskResolved
    \/ SendNextSlot
    \/ SinkReceive
    \/ Tick

Spec == Init /\ [][Next]_vars

(***************************************************************************)
(* Two overlapping cycles: promhttp serves every scrape in a goroutine of  *)
(* its own, so a second call of Collect can run while the first has not    *)
(* returned. Each call has its own locals, goroutines, wait group and      *)
(* channel; the clock is the one thing both read. The actions above step   *)
(* the call whose variables are pc .. sink; Switch exchanges the two.      *)
(***************************************************************************)
\* The variables of the call that is stepping.
Cycle ==
    [pc |-> pc, catalogResp |-> catalogResp, err |-> err, ciz |-> ciz, centers |-> centers,
     todoCenters |-> todoCenters, center |-> center, todoVacc |-> todoVacc,
     todoDis |-> todoDis, motive |-> motive, tasks |-> tasks, wg |-> wg, ch |-> ch,
     sink |-> sink]

\* Mutant of Switch: centers is a variable of the package, shared by the
\* calls, instead of a local of Collect.
SwitchSharedCenters ==
    /\ pc # "panic"
    /\ other' = Cycle
    /\ pc' = other.pc
    /\ catalogResp' = other.catalogResp
    /\ err' = other.err
    /\ ciz' = other.ciz
    /\ centers' = centers
    /\ todoCenters' = other.todoCenters
    /\ center' = other.center
    /\ todoVacc' = other.todoVacc
    /\ todoDis' = other.todoDis
    /\ motive' = other.motive
    /\ tasks' = other.tasks
    /\ wg' = other.wg
    /\ ch' = other.ch
    /\ sink' = other.sink
    /\ UNCHANGED <<now, avail, nextDate>>

\* The scheduler turns to the goroutines of the other call. A panic has
\* ended the process, and with it both calls.
Switch ==
    /\ pc # "panic"
    /\ other' = Cycle
    /\ pc' = other.pc
    /\ catalogResp' = other.catalogResp
    /\ err' = other.err
    /\ ciz' = other.ciz
    /\ centers' = other.centers
    /\ todoCenters' = other.todoCenters
    /\ center' = other.center
    /\ todoVacc' = other.todoVacc
    /\ todoDis' = other.todoDis
    /\ motive' = other.motive
    /\ tasks' = other.tasks
    /\ wg' = other.wg
    /\ ch' = other.ch
    /\ sink' = other.sink
    /\ UNCHANGED <<now, avail, nextDate>>

\* The catalog answers of the overlapping cycles: one center with a task,
\* one center with a disabled type, an orphan agenda, a failed fetch.
OverlapCatalogResps ==
    {r \in CatalogHTTPResults :
        /\ ~r.err /\ ~r.readErr /\ r.decodes
        /\ r.body.Places = << [Name |-> "Messe", PractiseIDs |-> <<1>>] >>
        /\ \/ r.StatusCode = 503 /\ r.body.Agendas = <<>>
           \/ /\ r.StatusCode = 200
              /\ r.body.Agendas \in
                   { << Agenda(10, 1, <<>>, FALSE, FALSE), Agenda(20, 1, <<1>>, FALSE, FALSE) >>,
                     << Agenda(10, 1, <<1>>, FALSE, TRUE) >>,
                     << Agenda(10, 1, <<1>>, FALSE, FALSE), Agenda(20, 2, <<1>>, FALSE, FALSE) >> }}

\* The availability answers of the overlapping cycles.
OverlapTaskResps ==
    {r \in TaskHTTPResults :
        \/ r.err
        \/ r.StatusCode = 200 /\ r.decodes}

\* A step of the stepping call, with the answers drawn from the sets above.
OverlapStep ==
    /\ Next
    /\ catalogResp' \in OverlapCatalogResps \cup {NoHTTP}
    /\ \A k \in DOMAIN tasks' : tasks'[k].resp \in OverlapTaskResps \cup {NoTaskResp}

NextOverlap == OverlapStep \/ Switch

SpecOverlap == Init /\ [][NextOverlap]_vars

\* The steps of Collect, and the steps of the goroutines it starts.
CollectStep ==
    \/ CollectFetchFailed \/ CollectPanic \/ CollectCenters \/ NextCenter \/ SpawnTask
    \/ SendPresence \/ SendDisabled \/ LoopEnd \/ WgWait

TaskStep == TaskRequest \/ TaskFetchFailed \/ TaskNoDate \/ TaskParseFailed \/ TaskResolved \/ SendNextSlot

\* The Go scheduler runs every runnable goroutine, every HTTP call returns
\* and the registry keeps receiving from the channel.
FairSpec == Spec /\ WF_vars(CollectStep) /\ WF_vars(TaskStep) /\ WF_vars(SinkReceive)

(***************************************************************************)
(* The classification alone, on any catalog of the bounded input set.      *)
(***************************************************************************)
InitClassify ==
    /\ pc = "classify"
    /\ Idle
    /\ ciz \in Catalogs(MaxAgendas)
    /\ avail = NoResponse

ClassifyReturn ==
    /\ pc = "classify"
    /\ ~Classify(ciz).panic
    /\ centers' = Classify(ciz).result
    /\ pc' = "classified"
    /\ UNCHANGED <<catalogResp, err, ciz, todoCenters, center, todoVacc, todoDis,
                   motive, tasks, wg, ch, sink, now, avail, nextDate, other>>

ClassifyPanic ==
    /\ pc = "classify"
    /\ Classify(ciz).panic
    /\ pc' = "panic"
    /\ UNCHANGED <<catalogResp, err, ciz, centers, todoCenters, center, todoVacc,
                   todoDis, motive, tasks, wg, ch, sink, now, avail, nextDate, other>>

NextClassify == ClassifyReturn \/ ClassifyPanic

SpecClassify == InitClassify /\ [][NextClassify]_vars

(***************************************************************************)
(* The next-date resolution alone, on any response of the bounded set.     *)
(***************************************************************************)
InitResolve ==
    /\ pc = "resolve"
    /\ Idle
    /\ ciz = NoCatalog
    /\ avail \in Responses

Resolve ==
    /\ pc = "resolve"
    /\ nextDate' = NextDate(avail)
    /\ pc' = "resolved"
    /\ UNCHANGED <<catalogResp, err, ciz, centers, todoCenters, center, todoVacc,
                   todoDis, motive, tasks, wg, ch, sink, now, avail, other>>

NextResolve == Resolve

SpecResolve == InitResolve /\ [][NextResolve]_vars

(***************************************************************************)
(* Vocabulary of the properties.                                           *)
(***************************************************************************)
RECURSIVE SeqToBag(_)
SeqToBag(q) ==
    IF q = <<>> THEN EmptyBag ELSE SetToBag({Head(q)}) (+) SeqToBag(Tail(q))

\* Every sample handed to the channel so far, received or not.
Emitted == sink (+) SeqToBag(ch)

OfDesc(B, desc) == [x \in {y \in DOMAIN B : y.desc = desc} |-> B[x]]

PresenceEmitted == OfDesc(Emitted, "impfzentrum")

NextSlotEmitted == OfDesc(Emitted, "impfzentrum_next_slot_duration_days")

RECURSIVE BagOfSamples(_, _)
BagOfSamples(S, sampleOf) ==
    IF S = {} THEN EmptyBag
    ELSE LET x == CHOOSE y \in S : TRUE
         IN SetToBag({sampleOf[x]}) (+) BagOfSamples(S \ {x}, sampleOf)

\* The entries of the two mappings of the centers: <<center, type id, disabled>>.
MappingEntries(cs) ==
    {<<c, id, FALSE>> : c \in cs, id \in MotiveIDs} \cup
    {<<c, id, TRUE>> : c \in cs, id \in MotiveIDs}

EntriesOf(cs) ==
    {e \in MappingEntries(cs) :
        e[2] \in (IF e[3] THEN DOMAIN e[1].DisabledVaccination ELSE DOMAIN e[1].Vaccination)}

\* One presence sample per entry, written out independently of Collect.
ExpectedPresence(cs) ==
    BagOfSamples(EntriesOf(cs),
        [e \in EntriesOf(cs) |->
            [desc |-> "impfzentrum",
             labels |-> <<e[1].Name,
                          IF e[3] THEN e[1].DisabledVaccination[e[2]]
                                  ELSE e[1].Vaccination[e[2]],
                          IF e[3] THEN "true" ELSE "false">>,
             value |-> <<1, 1>>]])

EnabledPairs(cs) == UNION {{<<c.ID, id>> : id \in DOMAIN c.Vaccination} : c \in cs}

Unfinished == {k \in DOMAIN tasks : tasks[k].st # "done"}

\* The next-slot samples of the tasks that have sent theirs.
SentByTasks ==
    LET sent == {k \in DOMAIN tasks : tasks[k].st = "done" /\ tasks[k].outcome = "slot"}
    IN BagOfSamples(sent, [k \in sent |-> tasks[k].sample])

CatalogFetchFails(r) == r.err \/ r.StatusCode >= 400 \/ r.readErr \/ ~r.decodes

CatalogPhaseSucceeded == pc \in {"range", "send", "wait", "done"} /\ err = "" /\ catalogResp.decodes

\* The first practice ids of the places that have one.
WithPractice(ps) == {i \in DOMAIN ps : Len(ps[i].PractiseIDs) >= 1}

FirstIDs(ps) == {ps[i].PractiseIDs[1] : i \in WithPractice(ps)}

Orphans(c) == {i \in DOMAIN c.Agendas : c.Agendas[i].PracticeID \notin FirstIDs(c.Places)}

WithoutOrphans(c) ==
    LET Owned(a) == a.PracticeID \in FirstIDs(c.Places)
    IN [c EXCEPT !.Agendas = SelectSeq(c.Agendas, Owned)]

\* The agendas of center id that reference the type, by position.
Referencing(c, id, type) ==
    {i \in DOMAIN c.Agendas :
        c.Agendas[i].PracticeID = id /\ type \in Range(c.Agendas[i].VisitMotives)}

Max(S) == CHOOSE x \in S : \A y \in S : y <= x

Min(S) == CHOOSE x \in S : \A y \in S : x <= y

NonEmptyWindows(r) ==
    {i \in DOMAIN r.Availabilities : Len(r.Availabilities[i].Slots) > 0}

(***************************************************************************)
(* Properties.                                                             *)
(***************************************************************************)

\* C1: Collect does not return before every CollectAvailability task it
\* scheduled has finished, whatever the task's outcome (fetch failed, no
\* date, parse failed, or sample sent); and when it returns after a
\* successful catalog phase, every enabled pair has had its task.
C1_JoinWaitsForTasks ==
    pc = "done" =>
        /\ \A k \in DOMAIN tasks : tasks[k].st = "done"
        /\ err = "" => DOMAIN tasks = EnabledPairs(centers)

C1_Witness ==
    /\ pc = "done"
    /\ \E k \in DOMAIN tasks : tasks[k].outcome = "parse failed"
    /\ \E k \in DOMAIN tasks : tasks[k].outcome = "no date"

\* C2: when the catalog fetch fails (transport error, status >= 400, body
\* not read or not decoded), Collect returns normally with no sample of
\* either kind emitted and no task scheduled.
C2_CatalogFailureEmitsNothing ==
    (pc # "start" /\ CatalogFetchFails(catalogResp)) =>
        /\ pc = "done"
        /\ err # ""
        /\ Emitted = EmptyBag
        /\ DOMAIN tasks = {}
        /\ wg = 0

C2_Witness ==
    /\ pc = "done"
    /\ catalogResp.StatusCode = 400
    /\ catalogResp.decodes
    /\ catalogResp.body.Agendas # <<>>
    /\ Emitted = EmptyBag

\* C3: a task whose availability fetch failed sends no next-slot sample and
\* releases the join; the presence sample of its pair is still sent; the
\* next-slot samples emitted are exactly those of the tasks that resolved
\* and parsed a date; and Collect returns only after every enabled pair has
\* had its task run to the end.
C3_FetchFailureIsPairLocal ==
    \A k \in DOMAIN tasks :
        tasks[k].outcome = "fetch failed" =>
            /\ tasks[k].st = "done"
            /\ tasks[k].sample = NoSample
            /\ wg = Cardinality(Unfinished)
            /\ NextSlotEmitted = SentByTasks
            /\ \/ pc = "send" /\ center.ID = k[1] /\ motive = k[2]
               \/ [desc |-> "impfzentrum",
                   labels |-> <<tasks[k].center.Name, tasks[k].motiveName, "false">>,
                   value |-> <<1, 1>>] \in DOMAIN Emitted
            /\ pc = "done" =>
                 /\ DOMAIN tasks = EnabledPairs(centers)
                 /\ Unfinished = {}

C3_Witness ==
    /\ pc = "done"
    /\ \E k \in DOMAIN tasks, j \in DOMAIN tasks :
         /\ k # j
         /\ tasks[k].outcome = "fetch failed"
         /\ tasks[j].outcome = "slot"
         /\ tasks[j].sample \in DOMAIN Emitted

\* C4: after classification, the enabled and the disabled mapping of a
\* center have no vaccination-type id in common.
C4_MappingsDisjoint ==
    pc = "classified" =>
        \A c \in centers : DOMAIN c.Vaccination \cap DOMAIN c.DisabledVaccination = {}

\* C5: no availability fetch task exists, and so no next-slot sample is
\* emitted, for a pair whose type is in the center's disabled mapping.
C5_NoFetchForDisabled ==
    \A c \in centers : \A id \in DOMAIN c.DisabledVaccination :
        <<c.ID, id>> \notin DOMAIN tasks

\* C6: an agenda whose practice id is no place's first practice id is
\* skipped: classification does not crash and returns what it returns for
\* the catalog without such agendas.
C6_OrphanAgendaSkipped ==
    (pc \in {"classified", "panic"} /\ Orphans(ciz) # {}) =>
        /\ pc = "classified"
        /\ centers = Classify(WithoutOrphans(ciz)).result

\* C7 as stated: when every agenda's practice id is some place's first
\* practice id, there are as many centers as places with a practice id,
\* each such place having a center keyed by its first practice id and
\* carrying its name.
C7_OneCenterPerPlace ==
    pc = "classified" =>
        /\ Cardinality(centers) = Cardinality(WithPractice(ciz.Places))
        /\ \A i \in WithPractice(ciz.Places) :
             \E c \in centers :
                c.ID = ciz.Places[i].PractiseIDs[1] /\ c.Name = ciz.Places[i].Name

\* C7 amended: when every agenda's practice id is some place's first
\* practice id, there is exactly one center per distinct first practice id
\* of the places that have a practice id; it is keyed by that id and
\* carries the name of the last place, in catalog order, with that first id.
C7_OneCenterPerFirstID ==
    pc = "classified" =>
        /\ Cardinality(centers) = Cardinality(FirstIDs(ciz.Places))
        /\ \A id \in FirstIDs(ciz.Places) :
             LET last == Max({i \in WithPractice(ciz.Places) :
                                 ciz.Places[i].PractiseIDs[1] = id})
             IN \E c \in centers : c.ID = id /\ c.Name = ciz.Places[last].Name

C7_Witness ==
    /\ pc = "classified"
    /\ Len(ciz.Places) = 2
    /\ ciz.Places[1].PractiseIDs = <<1>>
    /\ ciz.Places[2].PractiseIDs = <<1, 2>>
    /\ Len(ciz.Agendas) = 2
    /\ \E c \in centers : c.ID = 1 /\ c.Name = "Tegel"
    /\ Cardinality(centers) = 1

\* C8: per center and type, the last agenda of the center that references
\* the type decides: not disabled, the type is in the enabled mapping only;
\* disabled, the type is in the disabled mapping only.
C8_LastAgendaWins ==
    pc = "classified" =>
        \A c \in centers : \A type \in MotiveIDs :
            Referencing(ciz, c.ID, type) # {} =>
                LET a == ciz.Agendas[Max(Referencing(ciz, c.ID, type))]
                IN IF AgendaDisabled(a)
                   THEN /\ type \in DOMAIN c.DisabledVaccination
                        /\ type \notin DOMAIN c.Vaccination
                   ELSE /\ type \in DOMAIN c.Vaccination
                        /\ type \notin DOMAIN c.DisabledVaccination

\* C9 as stated: the resolved date is the date of the first window with a
\* non-empty slot list; without such a window it is the next_slot hint,
\* which is empty when there is none.
C9_FirstWindowElseHint ==
    pc = "resolved" =>
        IF NonEmptyWindows(avail) # {}
        THEN nextDate = avail.Availabilities[Min(NonEmptyWindows(avail))].Date
        ELSE nextDate = avail.NextSlot

\* C9 amended: the resolved date is the date of the first window with a
\* non-empty slot list when that date is not empty; when there is no such
\* window, or the date of the first such window is empty, it is the
\* next_slot hint, which is empty when there is none.
C9_FirstDatedWindowElseHint ==
    pc = "resolved" =>
        LET W == NonEmptyWindows(avail)
        IN IF W # {} /\ avail.Availabilities[Min(W)].Date # ""
           THEN nextDate = avail.Availabilities[Min(W)].Date
           ELSE nextDate = avail.NextSlot

C9_Witness ==
    /\ pc = "resolved"
    /\ Len(avail.Availabilities) = 2
    /\ avail.Availabilities[1] = [Date |-> "2024-01-10", Slots |-> <<>>]
    /\ avail.Availabilities[2].Date = "2024-01-12"
    /\ avail.Availabilities[2].Slots # <<>>
    /\ avail.NextSlot = "2024-02-01"
    /\ nextDate = "2024-01-12"

\* C10: after a successful catalog phase the presence samples emitted are
\* never more than one per entry of the enabled mappings (disabled="false")
\* and one per entry of the disabled mappings (disabled="true"), with value
\* 1 and the center's and the type's name; once the loops of Collect are
\* over they are exactly these, whatever the tasks have done so far.
C10_PresenceSamplesExact ==
    CatalogPhaseSucceeded =>
        /\ PresenceEmitted \sqsubseteq ExpectedPresence(centers)
        /\ pc \in {"wait", "done"} => PresenceEmitted = ExpectedPresence(centers)

C10_Witness ==
    /\ pc = "wait"
    /\ \E k \in DOMAIN tasks : tasks[k].st = "call"
    /\ \E k \in DOMAIN tasks : tasks[k].outcome = "fetch failed"
    /\ \E c \in centers : DOMAIN c.DisabledVaccination # {}
    /\ PresenceEmitted = ExpectedPresence(centers)

(***************************************************************************)
(* Vocabulary of the properties about the tasks.                           *)
(***************************************************************************)
\* The answer lets GetAvailabilities return a response.
FetchSucceeded(r) == ~r.err /\ r.StatusCode < 400 /\ ~r.readErr /\ r.decodes

\* The date a response resolves to, "" for none, written out independently
\* of NextDate.
ExpectedDate(r) ==
    LET W == NonEmptyWindows(r)
    IN IF W # {} /\ r.Availabilities[Min(W)].Date # ""
       THEN r.Availabilities[Min(W)].Date
       ELSE r.NextSlot

\* The day number (days since 1970-01-01) of the strings that are dates in
\* the layout 2006-01-02, -1 for the other strings of the inputs.
ExpectedDay(s) ==
    CASE s = "2024-01-09" -> 19731
      [] s = "2024-01-10" -> 19732
      [] s = "2024-01-12" -> 19734
      [] s = "2024-02-01" -> 19754
      [] s = "9999-12-31" -> 2932896
      [] OTHER -> -1

\* The tasks that have handed a sample to the channel.
Sent == {k \in DOMAIN tasks : tasks[k].st = "done" /\ tasks[k].sample # NoSample}

CenterOf(id) == CHOOSE c \in centers : c.ID = id

\* The ids of the agendas of practice id, in catalog order.
AgendaIDsOf(c, id) ==
    LET Owned(a) == a.PracticeID = id
        own == SelectSeq(c.Agendas, Owned)
    IN [i \in DOMAIN own |-> own[i].ID]

\* C11: a next-slot sample is emitted only by a task whose fetch succeeded
\* and whose response resolves to a date that parses; the next-slot samples
\* emitted are one per task that has sent, so at most one per enabled pair.
C11_NextSlotOnlyWhenResolved ==
    /\ NextSlotEmitted = BagOfSamples(Sent, [k \in Sent |-> tasks[k].sample])
    /\ \A k \in DOMAIN tasks :
         tasks[k].sample # NoSample =>
            /\ k \in EnabledPairs(centers)
            /\ FetchSucceeded(tasks[k].resp)
            /\ ExpectedDate(tasks[k].resp.body) # ""
            /\ ExpectedDay(ExpectedDate(tasks[k].resp.body)) >= 0

C11_Witness ==
    /\ pc = "done"
    /\ \E k \in Sent, j \in DOMAIN tasks :
         /\ tasks[j].resp.decodes
         /\ tasks[j].resp.body.NextSlot = "12.01.2024"
         /\ tasks[j].sample = NoSample
         /\ BagToSet(NextSlotEmitted) = {tasks[k].sample}

\* C12: the value of a next-slot sample is the hours from the clock the
\* task read to 00:00 of the resolved date, over 24, neither rounded nor
\* clamped; with the clock at 2024-01-10T00:00 and the date 2024-01-12 it
\* is 48/24.
C12_NextSlotValue ==
    \A k \in DOMAIN tasks :
        tasks[k].sample # NoSample =>
            LET date == ExpectedDate(tasks[k].resp.body)
                h    == ExpectedDay(date) * 24 - tasks[k].at
            IN /\ tasks[k].sample.value =
                    <<[hours |-> h, seconds |-> 0, nanoseconds |-> 0], 24>>
               /\ (tasks[k].at = 19732 * 24 /\ date = "2024-01-12") => h = 48

\* C13: a task whose resolved date does not parse sends no next-slot
\* sample and releases the join; the presence sample of its pair is still
\* sent, the process goes on, the other tasks' samples are emitted, and
\* Collect returns after every enabled pair has had its task.
C13_ParseFailureIsPairLocal ==
    \A k \in DOMAIN tasks :
        ( /\ FetchSucceeded(tasks[k].resp)
          /\ ExpectedDate(tasks[k].resp.body) # ""
          /\ ExpectedDay(ExpectedDate(tasks[k].resp.body)) < 0 ) =>
            /\ tasks[k].st = "done"
            /\ tasks[k].sample = NoSample
            /\ wg = Cardinality(Unfinished)
            /\ pc # "panic"
            /\ NextSlotEmitted = BagOfSamples(Sent, [j \in Sent |-> tasks[j].sample])
            /\ \/ pc = "send" /\ center.ID = k[1] /\ motive = k[2]
               \/ [desc |-> "impfzentrum",
                   labels |-> <<tasks[k].center.Name, tasks[k].motiveName, "false">>,
                   value |-> <<1, 1>>] \in DOMAIN Emitted
            /\ pc = "done" => (DOMAIN tasks = EnabledPairs(centers) /\ Unfinished = {})

C13_Witness ==
    /\ pc = "done"
    /\ \E k \in DOMAIN tasks, j \in Sent :
         /\ FetchSucceeded(tasks[k].resp)
         /\ ExpectedDate(tasks[k].resp.body) = "2024-02-30"
         /\ tasks[k].sample = NoSample
         /\ tasks[j].sample \in DOMAIN sink

\* C14: after a successful catalog phase the tasks are one per entry of the
\* enabled mappings (none besides them while the loops run, all of them
\* once the loops are over), the wait group counts each once, and a task
\* sends one availability request, also when the fetch fails.
C14_OneTaskOneRequest ==
    CatalogPhaseSucceeded =>
        /\ DOMAIN tasks \subseteq EnabledPairs(centers)
        /\ pc \in {"wait", "done"} => DOMAIN tasks = EnabledPairs(centers)
        /\ wg = Cardinality(Unfinished)
        /\ \A k \in DOMAIN tasks :
             tasks[k].calls = (IF tasks[k].st = "start" THEN 0 ELSE 1)

C14_Witness ==
    /\ pc = "done"
    /\ Cardinality(EnabledPairs(centers)) = 2
    /\ \A k \in DOMAIN tasks : tasks[k].resp.err /\ tasks[k].calls = 1

\* C16: the task of pair (center, type) sends the request with that
\* center's id, that type's id and that center's agenda ids, and its sample
\* carries that center's name and that type's name and the value of the
\* date resolved from the response the task itself got.
C16_TaskOwnsItsData ==
    \A k \in DOMAIN tasks :
        LET c == CenterOf(k[1])
        IN /\ tasks[k].st # "start" =>
                /\ tasks[k].req.practice_ids = ToString(k[1])
                /\ tasks[k].req.visit_motive_ids = ToString(k[2])
                /\ tasks[k].req.agenda_ids = JoinIDs(c.AgendaIDs)
           /\ tasks[k].sample # NoSample =>
                /\ tasks[k].sample.labels = <<c.Name, c.Vaccination[k[2]]>>
                /\ tasks[k].sample.value[1] =
                     HoursUntil(ExpectedDay(ExpectedDate(tasks[k].resp.body)), tasks[k].at)

C16_Witness ==
    /\ pc = "done"
    /\ \E k \in Sent, j \in Sent :
         /\ k[1] # j[1]
         /\ tasks[k].sample.labels = <<"Messe", "BioNTech">>
         /\ tasks[j].sample.labels = <<"Tegel", "BioNTech">>
         /\ ExpectedDate(tasks[k].resp.body) # ExpectedDate(tasks[j].resp.body)
         /\ tasks[k].req.agenda_ids = "10"
         /\ tasks[j].req.agenda_ids = "20"

\* C17: after classification the agenda-id list of a center is the ids of
\* the agendas with the center's practice id, in catalog order, one per
\* agenda, disabled agendas and agendas without a type included; every
\* availability request of the center sends this list, joined by "-".
C17_AgendaIDsComplete ==
    CatalogPhaseSucceeded =>
        /\ \A c \in centers : c.AgendaIDs = AgendaIDsOf(ciz, c.ID)
        /\ \A k \in DOMAIN tasks :
             tasks[k].st # "start" =>
                tasks[k].req.agenda_ids = JoinIDs(AgendaIDsOf(ciz, k[1]))

C17_Witness ==
    /\ pc = "wait"
    /\ \E k \in DOMAIN tasks :
         /\ tasks[k].req.agenda_ids = "10-20"
         /\ ciz.Agendas[1].VisitMotives = <<>>
    /\ \E c \in centers : c.AgendaIDs = <<10, 20>>

\* C15 as stated: a task suspends only on its HTTP call, so a task that has
\* its next-slot sample can always hand it over at once.
C15_SendNeverBlocks ==
    \A k \in DOMAIN tasks : tasks[k].st = "send" => Len(ch) < ChanCap

\* C15: a task waits at two places only: for the answer of its HTTP call,
\* which no other process can hold up, and at the channel send of its
\* next-slot sample, which is held up exactly while the channel is full.
C15_SuspendsOnCallAndSend ==
    /\ \A k \in DOMAIN tasks : tasks[k].st \in {"start", "call", "send", "done"}
    /\ (\E k \in DOMAIN tasks : tasks[k].st = "start") => ENABLED TaskRequest
    /\ (\E k \in DOMAIN tasks : tasks[k].st = "call") =>
          ENABLED (TaskFetchFailed \/ TaskNoDate \/ TaskParseFailed \/ TaskResolved)
    /\ (\E k \in DOMAIN tasks : tasks[k].st = "send") =>
          ((ENABLED SendNextSlot) <=> Len(ch) < ChanCap)

C15_Witness ==
    /\ \E k \in DOMAIN tasks : tasks[k].st = "send"
    /\ Len(ch) = ChanCap
    /\ ~ENABLED SendNextSlot

\* C20: once Collect has returned nothing more is sent on the channel: the
\* samples emitted do not change in any step taken after the return.
C20_NoSendAfterReturn ==
    [][pc = "done" => Emitted' = Emitted]_vars

C20_Witness ==
    /\ pc = "done"
    /\ Cardinality(Sent) = 2
    /\ ch = <<>>
    /\ \A k \in Sent : tasks[k].sample \in DOMAIN sink

\* C19: under fair scheduling, with every HTTP call returning and the
\* channel being received from, a cycle that has started completes: Collect
\* returns.
C19_CycleCompletes == (pc = "start") ~> (pc = "done")

(***************************************************************************)
(* Vocabulary of the property about overlapping cycles.                    *)
(***************************************************************************)
\* The centers of the catalog answer the call c itself got.
OwnCenters(c) == Impfzentren(c.catalogResp).result

EmittedIn(c) == c.sink (+) SeqToBag(c.ch)

SentIn(c) == {k \in DOMAIN c.tasks : c.tasks[k].st = "done" /\ c.tasks[k].sample # NoSample}

\* The centers, tasks and samples of the call c are those of its own
\* catalog answer, its own availability answers and its own clock readings.
CycleOwnsItsState(c) ==
    /\ c.pc = "start" => c = NewCycle
    /\ c.centers = OwnCenters(c)
    /\ OfDesc(EmittedIn(c), "impfzentrum") \sqsubseteq ExpectedPresence(OwnCenters(c))
    /\ OfDesc(EmittedIn(c), "impfzentrum_next_slot_duration_days") =
          BagOfSamples(SentIn(c), [k \in SentIn(c) |-> c.tasks[k].sample])
    /\ \A k \in DOMAIN c.tasks :
         /\ k \in EnabledPairs(OwnCenters(c))
         /\ c.tasks[k].sample # NoSample =>
              LET o == CHOOSE x \in OwnCenters(c) : x.ID = k[1]
              IN /\ c.tasks[k].sample.labels = <<o.Name, o.Vaccination[k[2]]>>
                 /\ c.tasks[k].sample.value =
                      <<HoursUntil(ExpectedDay(ExpectedDate(c.tasks[k].resp.body)),
                                   c.tasks[k].at), 24>>

\* C18: of two overlapping cycles each has the centers of its own catalog
\* answer and, on its own channel, only samples of its own centers, answers
\* and clock readings; a step of one cycle changes nothing of the other
\* (its centers, mappings, tasks, channel, sink), and the scheduler turning
\* from one to the other changes nothing of either.
C18_CyclesShareNothing ==
    /\ [](CycleOwnsItsState(Cycle) /\ CycleOwnsItsState(other))
    /\ [][\/ other' = other
          \/ other' = Cycle /\ Cycle' = other]_vars

C18_Witness ==
    /\ pc = "wait"
    /\ \E k \in DOMAIN tasks : tasks[k].st = "send"
    /\ other.pc \notin {"start", "done"}
    /\ other.centers # {}
    /\ other.centers # centers
    /\ Emitted # EmptyBag
    /\ EmittedIn(other) # EmptyBag

====
